---- MODULE Spec2Model ----
(***************************************************************************)
(* A model of the LINE webhook handlers of src/app.py (handle_postback,    *)
(* handle_message, handle_location) and of the trip pipeline of            *)
(* src/main/main_trip/controllers/controller.py (TripController).          *)
(*                                                                         *)
(* Strings are sequences of atoms: an atom is one character ("_", "-", a   *)
(* digit) or a run of characters that holds no underscore ("cancel", a     *)
(* place name).  str.split("_") and int() are computed on these sequences. *)
(*                                                                         *)
(* trip_db (feature.nosql_mongo.mongo_trip.db_helper), CommandHandler,     *)
(* qdrant_search, csv_read and TripPlanningSystem are not among the source *)
(* files; their operators below follow the specification's words.          *)
(***************************************************************************)
EXTENDS Integers, Sequences, FiniteSets, TLC

VARIABLES
    trip_user_states,   \* app.py:39  line_id -> "waiting_location" (or Absent)
    plans,              \* trip_db: line_id -> sequence of stored plans
    dislikes,           \* trip_db: line_id -> sequence of dislike reasons
    locations,          \* trip_db: line_id -> has a location been recorded
    last,               \* the event handled last and what the handler did
    pm,                 \* process_message / _vector_retrieval: control state
    tasks,              \* _vector_retrieval: the futures, by submission index
    arrival,            \* _vector_retrieval: indices in completion order
    results,            \* _vector_retrieval: the dict `results`
    th,                 \* two concurrent deliveries of one postback: threads
    before              \* the conversation state when the two were delivered

vars == <<trip_user_states, plans, dislikes, locations, last,
          pm, tasks, arrival, results, th, before>>

handlerVars == <<trip_user_states, plans, dislikes, locations, last>>
pipelineVars == <<pm, tasks, arrival, results>>
deliveryVars == <<th, before>>

----------------------------------------------------------------------------
(* Bounds of the model *)

\* stored plans per conversation (planning is disabled once the store is full)
MaxPlans == 2
\* stored plans per conversation when two conversations are interleaved
MaxPlansTwoUsers == 1
\* period descriptors in one planning request of the retrieval specification
MaxPeriods == 3

----------------------------------------------------------------------------
(* Values *)

Absent == "absent"
Users == {"u1", "u2"}
ActiveUsers == {"u1"}

Min(a, b) == IF a <= b THEN a ELSE b

Digits == {"0", "1", "2", "3", "4", "5", "6", "7", "8", "9"}

DigitVal(c) ==
    CASE c = "0" -> 0 [] c = "1" -> 1 [] c = "2" -> 2 [] c = "3" -> 3
      [] c = "4" -> 4 [] c = "5" -> 5 [] c = "6" -> 6 [] c = "7" -> 7
      [] c = "8" -> 8 [] c = "9" -> 9

----------------------------------------------------------------------------
(* str.split("_"), int(), f-strings *)

RECURSIVE SplitFrom(_, _, _)
SplitFrom(data, i, field) ==
    IF i > Len(data) THEN <<field>>
    ELSE IF data[i] = "_" THEN <<field>> \o SplitFrom(data, i + 1, <<>>)
    ELSE SplitFrom(data, i + 1, Append(field, data[i]))

\* data.split("_"): the fields between underscores, empty fields kept
Split(data) == SplitFrom(data, 1, <<>>)

RECURSIVE DigitsValue(_, _)
DigitsValue(s, acc) ==
    IF s = <<>> THEN acc ELSE DigitsValue(Tail(s), 10 * acc + DigitVal(Head(s)))

AllDigits(s) == s # <<>> /\ \A i \in 1..Len(s) : s[i] \in Digits

\* int(field): [ok |-> FALSE] is the ValueError
ParseInt(field) ==
    IF AllDigits(field) THEN [ok |-> TRUE, val |-> DigitsValue(field, 0)]
    ELSE IF field # <<>> /\ Head(field) = "-" /\ AllDigits(Tail(field))
         THEN [ok |-> TRUE, val |-> 0 - DigitsValue(Tail(field), 0)]
    ELSE [ok |-> FALSE, val |-> 0]

RECURSIVE JoinFields(_)
\* the inverse of split: the fields with "_" between them
JoinFields(fields) ==
    IF Len(fields) = 1 THEN fields[1]
    ELSE fields[1] \o <<"_">> \o JoinFields(Tail(fields))

StartsWith(data, prefix) ==
    /\ Len(data) >= Len(prefix)
    /\ SubSeq(data, 1, Len(prefix)) = prefix

TripPlanningPrefix == <<"action=trip_planning">>
DirectPlanData == <<"action=direct_plan">>
CancelPrefix == <<"cancel", "_">>

----------------------------------------------------------------------------
(* The collaborators' data: what a search returns, what the dataset holds *)

\* a period descriptor {label: description}
Descriptor(label, desc) == [label |-> label, desc |-> desc]

Descriptors ==
    { Descriptor("morning", "cafe"), Descriptor("lunch", "spicy"),
      Descriptor("morning", "temple") }

\* the ranked place ids a successful search of a description returns
SearchIds(desc) ==
    CASE desc = "cafe"   -> <<"A", "B">>
      [] desc = "spicy"  -> <<"C", "A">>
      [] desc = "temple" -> <<"B", "C">>

\* the dataset's attribute of a place
Accessible(name) == name \in {"A", "C"}

\* the category label the rendering puts in a step's cancel button
LabelOf(name) == IF name = "C" THEN "food" ELSE "sight"

----------------------------------------------------------------------------
(* TripController: the pipeline as a function of the collaborators' outcomes *)

HasKey(d, k) == \E i \in 1..Len(d) : d[i].key = k

\* dict.update with a one-key dict: a key already present keeps its place
DictUpdate(d, k, v) ==
    IF HasKey(d, k)
    THEN [i \in 1..Len(d) |-> IF d[i].key = k THEN [key |-> k, ids |-> v] ELSE d[i]]
    ELSE Append(d, [key |-> k, ids |-> v])

Keys(d) == { d[i].key : i \in 1..Len(d) }

\* a variant that keys the result by the description
TripSearchByDescription(query) == [key |-> query.desc, ids |-> SearchIds(query.desc)]

\* qdrant_obj.trip_search(query) when it returns: {label: ranked ids}
TripSearch(query) == [key |-> query.label, ids |-> SearchIds(query.desc)]

RECURSIVE MergeInOrder(_, _, _, _)
\* the loop `for future in future_to_query`: futures in submission order, a
\* failed one skipped
MergeInOrder(period_describe, outcome, i, acc) ==
    IF i > Len(period_describe) THEN acc
    ELSE MergeInOrder(period_describe, outcome, i + 1,
            IF outcome[i] = "ok"
            THEN DictUpdate(acc, TripSearch(period_describe[i]).key,
                                 TripSearch(period_describe[i]).ids)
            ELSE acc)

\* _vector_retrieval, given each task's outcome ("ok" or "failed")
VectorRetrieval(period_describe, outcome) ==
    MergeInOrder(period_describe, outcome, 1, <<>>)

\* controller.py:150: the requirement _get_places passes on
HardcodedRequirement == [accessible |-> FALSE]

Passes(name, detail_info) == detail_info.accessible => Accessible(name)

RECURSIVE PeriodPlaces(_, _, _)
PeriodPlaces(key, ids, detail_info) ==
    IF ids = <<>> THEN <<>>
    ELSE (IF Passes(Head(ids), detail_info)
          THEN <<[period |-> key, name |-> Head(ids)]>> ELSE <<>>)
         \o PeriodPlaces(key, Tail(ids), detail_info)

RECURSIVE PandasSearch(_, _)
\* csv_read.pandas_search: the candidates of each period, in the mapping's
\* order and in rank order, that pass every required flag
PandasSearch(condition_data, detail_info) ==
    IF condition_data = <<>> THEN <<>>
    ELSE PeriodPlaces(Head(condition_data).key, Head(condition_data).ids, detail_info)
         \o PandasSearch(Tail(condition_data), detail_info)

\* _get_places: the caller's unique_requirement is overwritten
GetPlaces(placeIDs, unique_requirement) ==
    PandasSearch(placeIDs, HardcodedRequirement)

RECURSIVE Compose(_, _)
\* one place per period, in order, the best ranked one not selected before
Compose(location_details, steps) ==
    IF location_details = <<>> THEN steps
    ELSE LET c == Head(location_details)
             taken == \E i \in 1..Len(steps) :
                         steps[i].period = c.period \/ steps[i].name = c.name
         IN Compose(Tail(location_details),
                    IF taken THEN steps ELSE Append(steps, c))

\* trip_planner.plan_trip as _plan_trip calls it: no prefix, no dislikes
PlanTrip(location_details, base_requirement) == Compose(location_details, <<>>)

\* the messages the collaborators' exceptions carry
ErrorDetails == { <<"timeout">>, <<"connection refused">> }

\* controller.py:130: the message of the exception _vector_retrieval raises
RetrievalError(detail) == <<"vector search error: ">> \o detail

\* controller.py:57: the string process_message returns from its except clause
Apology(detail) == <<"sorry, a system error: ">> \o detail

\* what process_message returns when the given stage raises with the detail
FailureText(stage, detail) ==
    IF stage = "retrieval" THEN Apology(RetrievalError(detail)) ELSE Apology(detail)

\* process_message, given the analyzer's outcome (LlmFail or its result) and the
\* retrieval tasks' outcomes; [ok |-> TRUE] carries the plan
ProcessMessage(llm, outcome) ==
    IF ~llm.ok THEN [ok |-> FALSE, text |-> FailureText("analyze", llm.detail), plan |-> <<>>]
    ELSE [ok |-> TRUE, text |-> <<>>,
          plan |-> PlanTrip(GetPlaces(VectorRetrieval(llm.period_describe, outcome),
                                      llm.unique_requirement),
                            llm.base_requirement)]

----------------------------------------------------------------------------
(* trip_db: the conversation state store *)

\* a stored plan: its steps, its restart index, the cancel buttons pressed
StoredPlan(steps) == [steps |-> steps, restart_index |-> Len(steps), buttons |-> {}]

\* a variant that validates the plan's index and the button, not the step
UpdatePlanRestartIndexUnchecked(ps, plan_index, restart_index, button_id) ==
    LET valid == /\ plan_index \in 1..Len(ps)
                 /\ button_id \notin ps[plan_index].buttons
    IN [success |-> valid,
        plans |-> IF valid
                  THEN [ps EXCEPT ![plan_index] =
                          [@ EXCEPT !.restart_index = Min(@, restart_index),
                                    !.buttons = @ \cup {button_id}]]
                  ELSE ps]

\* trip_db.update_plan_restart_index: the step is validated against the plan,
\* a button pressed before is refused, the restart index only moves down
UpdatePlanRestartIndex(ps, plan_index, restart_index, button_id) ==
    LET valid == /\ plan_index \in 1..Len(ps)
                 /\ 0 <= restart_index
                 /\ restart_index < Len(ps[plan_index].steps)
                 /\ button_id \notin ps[plan_index].buttons
    IN [success |-> valid,
        plans |-> IF valid
                  THEN [ps EXCEPT ![plan_index] =
                          [@ EXCEPT !.restart_index = Min(@, restart_index),
                                    !.buttons = @ \cup {button_id}]]
                  ELSE ps]

InSeq(x, s) == \E i \in 1..Len(s) : s[i] = x

\* the place a dislike reason is about: the text between the opening words
\* and the first "("
RECURSIVE UpToParen(_)
UpToParen(s) ==
    IF s = <<>> \/ Head(s) = "(" THEN <<>> ELSE <<Head(s)>> \o UpToParen(Tail(s))

IdentityOf(reason) == UpToParen(Tail(reason))

Identities(ds) == { IdentityOf(ds[i]) : i \in 1..Len(ds) }

\* a variant that appends without looking
UpdateUserDislikeAlways(ds, dislike_reason) == Append(ds, dislike_reason)

\* trip_db.update_user_dislike: appended only if the place is not recorded yet
UpdateUserDislike(ds, dislike_reason) ==
    IF IdentityOf(dislike_reason) \in Identities(ds) THEN ds
    ELSE Append(ds, dislike_reason)

----------------------------------------------------------------------------
(* handle_postback: the cancel branch *)

\* app.py:177
ButtonId(plan_index, step) == <<"cancel", plan_index, step>>

\* a variant that passes the plan's index where the step is meant
RestartIndexArgSwapped(plan_index, step) == plan_index

\* app.py:181: the restart_index argument of update_plan_restart_index
RestartIndexArg(plan_index, step) == step

\* app.py:188
DislikeReason(name, label) == <<"dislike ">> \o name \o <<"(">> \o label \o <<")">>

RecordedText(name, label) == <<"recorded: dislike ">> \o name \o <<"(">> \o label \o <<")">>
AlreadyText(name, label) == <<"stop, known: dislike ">> \o name \o <<"(">> \o label \o <<")">>

\* a variant that always acknowledges as recorded
DislikeButtonTextAlwaysRecorded(success, name, label) == RecordedText(name, label)

\* app.py:186-193: the acknowledgement
DislikeButtonText(success, name, label) ==
    IF success THEN RecordedText(name, label) ELSE AlreadyText(name, label)

\* app.py:210: the reply of the except clause
PostbackErrorText == <<"error handling the request">>

\* app.py:165-193 (and 202-212 when int() raises): what the cancel branch makes
\* of the user's plans ps and dislikes ds, and the text it is about to send
CancelRecord(ps, ds, data) ==
    LET parts == Split(data)
        keep == [plans |-> ps, dislikes |-> ds, replies |-> <<>>,
                 planned |-> FALSE, success |-> FALSE, exc |-> "none"]
    IN IF Len(parts) # 5 THEN keep
       ELSE LET plan_index == ParseInt(parts[2])
                step == ParseInt(parts[3])
                name == parts[4]
                label == parts[5]
            IN IF ~plan_index.ok \/ ~step.ok
               THEN [keep EXCEPT !.replies = <<PostbackErrorText>>, !.exc = "caught"]
               ELSE LET upd == UpdatePlanRestartIndex(ps, plan_index.val,
                                  RestartIndexArg(plan_index.val, step.val),
                                  ButtonId(plan_index.val, step.val))
                    IN [plans |-> upd.plans,
                        dislikes |-> IF upd.success
                                     THEN UpdateUserDislike(ds, DislikeReason(name, label))
                                     ELSE ds,
                        replies |-> <<DislikeButtonText(upd.success, name, label)>>,
                        planned |-> FALSE,
                        success |-> upd.success,
                        exc |-> "none"]

\* the analyzer's result for the request the handlers plan with
TheIntent ==
    [ok |-> TRUE, detail |-> <<>>,
     period_describe |-> <<Descriptor("morning", "cafe"), Descriptor("lunch", "spicy")>>,
     unique_requirement |-> [accessible |-> TRUE],
     base_requirement |-> "one day"]

\* LLM_obj.Thinking_fun raises
LlmFail ==
    [ok |-> FALSE, detail |-> <<"timeout">>, period_describe |-> <<>>,
     unique_requirement |-> [accessible |-> FALSE], base_requirement |-> ""]

TaskOutcomes(n) == [1..n -> {"ok", "failed"}]

\* the collaborators' outcomes during one planning request: the analyzer
\* fails (no search runs), or it returns and each search succeeds or fails
PlanningOutcomes ==
    { [llm |-> LlmFail, outcome |-> <<>>] }
    \cup { [llm |-> TheIntent, outcome |-> o] : o \in TaskOutcomes(2) }

\* a variant of the branch that plans again right after a recorded cancellation
AfterCancelReplan(r) ==
    IF r.success /\ Len(r.plans) < MaxPlans
    THEN [r EXCEPT !.planned = TRUE,
                   !.plans = Append(@, StoredPlan(
                       ProcessMessage(TheIntent, [i \in 1..2 |-> "ok"]).plan))]
    ELSE r

\* app.py:195-200: the branch ends with the acknowledgement; nothing is planned
AfterCancel(r) == r

CancelOutcome(ps, ds, data) == AfterCancel(CancelRecord(ps, ds, data))

----------------------------------------------------------------------------
(* CommandHandler.handle_trip_command: run the pipeline, store and send the plan *)

\* the rendered plan: the names of its steps in order
PlanText(steps) == <<"plan">> \o [i \in 1..Len(steps) |-> steps[i].name]

TripCommand(ps, llm, outcome) ==
    LET r == ProcessMessage(llm, outcome)
    IN IF r.ok
       THEN [plans |-> Append(ps, StoredPlan(r.plan)), replies |-> <<PlanText(r.plan)>>]
       ELSE [plans |-> ps, replies |-> <<r.text>>]

----------------------------------------------------------------------------
(* The events *)

IndexTokens == { <<"1">>, <<"2">> }
StepTokens == { <<"0">>, <<"1">> }
NameTokens == { <<"A">>, <<"C">> }

\* the label the button of a place carries
LabelToken(name) == <<LabelOf(name[Len(name)])>>

\* cancel_{plan_index}_{step}_{name}_{label}
CancelButton(pi, st, nm) == JoinFields(<<<<"cancel">>, pi, st, nm, LabelToken(nm)>>)

\* the data of the cancel buttons; then data with a name that holds an
\* underscore, data cut short, indices that are no numbers, a negative step,
\* a step past the end of every plan
CancelData ==
    { CancelButton(pi, st, nm) : pi \in IndexTokens, st \in StepTokens, nm \in NameTokens }
    \cup { CancelButton(<<"1">>, <<"0">>, <<"A", "_", "C">>),
           JoinFields(<<<<"cancel">>, <<"1">>, <<"0">>, <<"A">>>>),
           CancelButton(<<"x">>, <<"0">>, <<"A">>),
           CancelButton(<<"1">>, <<"x">>, <<"A">>),
           CancelButton(<<"1">>, <<"-", "1">>, <<"A">>),
           CancelButton(<<"1">>, <<"2">>, <<"A">>) }

TripPlanningData == { TripPlanningPrefix, TripPlanningPrefix \o <<"&from=menu">> }
OtherData == { <<"action=other">> }

\* what is kept of a handled event: its kind, sender and data (and, of a cancel
\* button, the parts data.split("_") gives), the location flag found on
\* arrival, the replies sent, whether the pipeline was invoked,
\* and what became of an exception: "none" was raised, it was "caught" by the
\* handler's except clause, or it "propagated" out of the handler
NoEvent == [kind |-> "none", user |-> "u1", data |-> <<>>, parts |-> <<>>,
            was |-> Absent, replies |-> <<>>, planned |-> FALSE, exc |-> "none"]

Event(kind, u, data, replies, planned) ==
    [kind |-> kind, user |-> u, data |-> data,
     parts |-> IF kind = "postback" /\ StartsWith(data, CancelPrefix)
               THEN Split(data) ELSE <<>>,
     was |-> trip_user_states[u],
     replies |-> replies, planned |-> planned, exc |-> "none"]

\* the event of a handler that an exception interrupted
Failed(e, exc) == [e EXCEPT !.exc = exc]

----------------------------------------------------------------------------
(* handle_postback *)

\* a variant that leaves the flag alone when a cancel button is pressed
ClearOnPostbackNotCancel(states, u, data) ==
    IF states[u] # Absent /\ ~StartsWith(data, TripPlanningPrefix)
                          /\ ~StartsWith(data, CancelPrefix)
    THEN [states EXCEPT ![u] = Absent]
    ELSE states

\* app.py:120-121
ClearOnPostback(states, u, data) ==
    IF states[u] # Absent /\ ~StartsWith(data, TripPlanningPrefix)
    THEN [states EXCEPT ![u] = Absent]
    ELSE states

\* app.py:128-161
PostbackTripPlanning(u, data) ==
    /\ StartsWith(data, TripPlanningPrefix)
    /\ trip_user_states' =
         [ClearOnPostback(trip_user_states, u, data) EXCEPT ![u] = "waiting_location"]
    /\ last' = Event("postback", u, data, <<<<"choose how to plan">>>>, FALSE)
    /\ UNCHANGED <<plans, dislikes, locations>>

\* app.py:162-163
PostbackDirectPlan(u, llm, outcome) ==
    /\ Len(plans[u]) < MaxPlans
    /\ \E t \in {TripCommand(plans[u], llm, outcome)} :
          /\ plans' = [plans EXCEPT ![u] = t.plans]
          /\ last' = Event("postback", u, DirectPlanData, t.replies, TRUE)
    /\ trip_user_states' = ClearOnPostback(trip_user_states, u, DirectPlanData)
    /\ UNCHANGED <<dislikes, locations>>

\* app.py:162-163, 202-212: handle_trip_command raises
PostbackDirectPlanRaises(u) ==
    /\ trip_user_states' = ClearOnPostback(trip_user_states, u, DirectPlanData)
    /\ last' = Failed(Event("postback", u, DirectPlanData, <<PostbackErrorText>>, TRUE),
                      "caught")
    /\ UNCHANGED <<plans, dislikes, locations>>

\* app.py:165-200
PostbackCancel(u, data) ==
    /\ StartsWith(data, CancelPrefix)
    /\ \E c \in {CancelOutcome(plans[u], dislikes[u], data)} :
          /\ plans' = [plans EXCEPT ![u] = c.plans]
          /\ dislikes' = [dislikes EXCEPT ![u] = c.dislikes]
          /\ last' = Failed(Event("postback", u, data, c.replies, c.planned), c.exc)
    /\ trip_user_states' = ClearOnPostback(trip_user_states, u, data)
    /\ UNCHANGED locations

\* app.py:117-129, 165: data no branch matches
PostbackOther(u, data) ==
    /\ ~StartsWith(data, TripPlanningPrefix)
    /\ data # DirectPlanData
    /\ ~StartsWith(data, CancelPrefix)
    /\ trip_user_states' = ClearOnPostback(trip_user_states, u, data)
    /\ last' = Event("postback", u, data, <<>>, FALSE)
    /\ UNCHANGED <<plans, dislikes, locations>>

----------------------------------------------------------------------------
(* handle_message *)

TripCommandText == <<"trip recommendation">>
OtherText == <<"hello">>

\* a variant that leaves the flag alone
ClearOnMessageKeep(states, u) == states

\* a variant that empties the whole dict
ClearOnMessageAll(states, u) == [v \in Users |-> Absent]

\* app.py:229-230
ClearOnMessage(states, u) ==
    IF states[u] # Absent THEN [states EXCEPT ![u] = Absent] ELSE states

\* app.py:226-230, 258-259
MessageTrip(u, llm, outcome) ==
    /\ Len(plans[u]) < MaxPlans
    /\ trip_user_states' = ClearOnMessage(trip_user_states, u)
    /\ \E t \in {TripCommand(plans[u], llm, outcome)} :
          /\ plans' = [plans EXCEPT ![u] = t.plans]
          /\ last' = Event("text", u, TripCommandText, t.replies, TRUE)
    /\ UNCHANGED <<dislikes, locations>>

\* app.py:303: the reply of the except clause
MessageErrorText == <<"error handling the message">>

\* app.py:226-232: trip_db.record_user_input raises; the call is outside the
\* try, the exception leaves the handler
MessageRecordRaises(u, text_message) ==
    /\ trip_user_states' = ClearOnMessage(trip_user_states, u)
    /\ last' = Failed(Event("text", u, text_message, <<>>, FALSE), "propagated")
    /\ UNCHANGED <<plans, dislikes, locations>>

\* app.py:226-259, 295-305: handle_trip_command raises
MessageTripRaises(u) ==
    /\ trip_user_states' = ClearOnMessage(trip_user_states, u)
    /\ last' = Failed(Event("text", u, TripCommandText, <<MessageErrorText>>, TRUE),
                      "caught")
    /\ UNCHANGED <<plans, dislikes, locations>>

\* app.py:226-230: a text no trip command matches
MessageOther(u) ==
    /\ trip_user_states' = ClearOnMessage(trip_user_states, u)
    /\ last' = Event("text", u, OtherText, <<>>, FALSE)
    /\ UNCHANGED <<plans, dislikes, locations>>

----------------------------------------------------------------------------
(* handle_location *)

LocationData == <<"25.03,121.56">>

\* app.py:348: the reply of the except clause
LocationErrorText == <<"error handling the location">>

\* a variant that takes every conversation to be waiting
AwaitingLocationAlways(states, u) == TRUE

\* app.py:323
AwaitingLocation(states, u) == states[u] # Absent /\ states[u] = "waiting_location"

\* app.py:322-332, 340-350: trip_db.update_user_location raises
LocationStoreRaises(u) ==
    /\ AwaitingLocation(trip_user_states, u)
    /\ last' = Failed(Event("location", u, LocationData, <<LocationErrorText>>, FALSE),
                      "caught")
    /\ UNCHANGED <<trip_user_states, plans, dislikes, locations>>

\* app.py:322-337, 340-350: the location is stored, handle_trip_command raises
LocationTripRaises(u) ==
    /\ AwaitingLocation(trip_user_states, u)
    /\ locations' = [locations EXCEPT ![u] = TRUE]
    /\ last' = Failed(Event("location", u, LocationData, <<LocationErrorText>>, TRUE),
                      "caught")
    /\ UNCHANGED <<trip_user_states, plans, dislikes>>

\* app.py:322-339
LocationWaiting(u, llm, outcome) ==
    /\ AwaitingLocation(trip_user_states, u)
    /\ Len(plans[u]) < MaxPlans
    /\ locations' = [locations EXCEPT ![u] = TRUE]
    /\ \E t \in {TripCommand(plans[u], llm, outcome)} :
          /\ plans' = [plans EXCEPT ![u] = t.plans]
          /\ last' = Event("location", u, LocationData, t.replies, TRUE)
    /\ trip_user_states' = [trip_user_states EXCEPT ![u] = Absent]
    /\ UNCHANGED dislikes

\* app.py:323: the condition is false
LocationNotWaiting(u) ==
    /\ ~AwaitingLocation(trip_user_states, u)
    /\ last' = Event("location", u, LocationData, <<>>, FALSE)
    /\ UNCHANGED <<trip_user_states, plans, dislikes, locations>>

----------------------------------------------------------------------------
(* The handlers, one event at a time *)

IdlePipeline ==
    [pc |-> "idle", period_describe |-> <<>>, i |-> 0, stages |-> <<>>,
     unique_requirement |-> [accessible |-> FALSE],
     location_details |-> <<>>, ret |-> [ok |-> FALSE, text |-> <<>>, plan |-> <<>>],
     raised |-> "none"]
IdleDeliveries == [t \in {1, 2} |-> [pc |-> "idle", data |-> <<>>, success |-> FALSE,
                                     replies |-> <<>>]]
NoSnapshot == [plans |-> <<>>, dislikes |-> <<>>, flag |-> Absent]

HandlerInit ==
    /\ trip_user_states = [u \in Users |-> Absent]
    /\ plans = [u \in Users |-> <<>>]
    /\ dislikes = [u \in Users |-> <<>>]
    /\ locations = [u \in Users |-> FALSE]
    /\ last = NoEvent

Init ==
    /\ HandlerInit
    /\ pm = IdlePipeline
    /\ tasks = <<>>
    /\ arrival = <<>>
    /\ results = <<>>
    /\ th = IdleDeliveries
    /\ before = NoSnapshot

Next ==
    \E u \in ActiveUsers :
        \/ (\E data \in TripPlanningData : PostbackTripPlanning(u, data))
              /\ UNCHANGED <<pipelineVars, deliveryVars>>
        \/ (\E o \in PlanningOutcomes : PostbackDirectPlan(u, o.llm, o.outcome))
              /\ UNCHANGED <<pipelineVars, deliveryVars>>
        \/ (\E data \in CancelData : PostbackCancel(u, data))
              /\ UNCHANGED <<pipelineVars, deliveryVars>>
        \/ (\E data \in OtherData : PostbackOther(u, data))
              /\ UNCHANGED <<pipelineVars, deliveryVars>>
        \/ (\E o \in PlanningOutcomes : MessageTrip(u, o.llm, o.outcome))
              /\ UNCHANGED <<pipelineVars, deliveryVars>>
        \/ MessageOther(u) /\ UNCHANGED <<pipelineVars, deliveryVars>>
        \/ (\E o \in PlanningOutcomes : LocationWaiting(u, o.llm, o.outcome))
              /\ UNCHANGED <<pipelineVars, deliveryVars>>
        \/ LocationNotWaiting(u) /\ UNCHANGED <<pipelineVars, deliveryVars>>
        \/ PostbackDirectPlanRaises(u) /\ UNCHANGED <<pipelineVars, deliveryVars>>
        \/ (\E text_message \in {TripCommandText, OtherText} :
               MessageRecordRaises(u, text_message))
              /\ UNCHANGED <<pipelineVars, deliveryVars>>
        \/ MessageTripRaises(u) /\ UNCHANGED <<pipelineVars, deliveryVars>>
        \/ LocationStoreRaises(u) /\ UNCHANGED <<pipelineVars, deliveryVars>>
        \/ LocationTripRaises(u) /\ UNCHANGED <<pipelineVars, deliveryVars>>

Spec == Init /\ [][Next]_vars

----------------------------------------------------------------------------
(* Two conversations: the events of u1 and u2 interleaved, each handled as     *)
(* above, over fewer payloads                                                  *)

\* two buttons of a plan, a button pressed for a plan that does not exist, and
\* data cut short
TwoUsersCancelData ==
    { CancelButton(<<"1">>, <<"0">>, <<"A">>),
      CancelButton(<<"1">>, <<"1">>, <<"C">>),
      CancelButton(<<"2">>, <<"0">>, <<"A">>),
      JoinFields(<<<<"cancel">>, <<"1">>, <<"0">>, <<"A">>>>) }

\* the analyzer fails, or every stage succeeds
TwoUsersOutcomes ==
    { [llm |-> LlmFail, outcome |-> <<>>],
      [llm |-> TheIntent, outcome |-> <<"ok", "ok">>] }

TwoUsersNext ==
    \E u \in Users :
        \/ PostbackTripPlanning(u, TripPlanningPrefix)
              /\ UNCHANGED <<pipelineVars, deliveryVars>>
        \/ (\E o \in TwoUsersOutcomes :
               Len(plans[u]) < MaxPlansTwoUsers /\ PostbackDirectPlan(u, o.llm, o.outcome))
              /\ UNCHANGED <<pipelineVars, deliveryVars>>
        \/ (\E data \in TwoUsersCancelData : PostbackCancel(u, data))
              /\ UNCHANGED <<pipelineVars, deliveryVars>>
        \/ (\E data \in OtherData : PostbackOther(u, data))
              /\ UNCHANGED <<pipelineVars, deliveryVars>>
        \/ (\E o \in TwoUsersOutcomes :
               Len(plans[u]) < MaxPlansTwoUsers /\ MessageTrip(u, o.llm, o.outcome))
              /\ UNCHANGED <<pipelineVars, deliveryVars>>
        \/ MessageOther(u) /\ UNCHANGED <<pipelineVars, deliveryVars>>
        \/ (\E o \in TwoUsersOutcomes :
               Len(plans[u]) < MaxPlansTwoUsers /\ LocationWaiting(u, o.llm, o.outcome))
              /\ UNCHANGED <<pipelineVars, deliveryVars>>
        \/ LocationNotWaiting(u) /\ UNCHANGED <<pipelineVars, deliveryVars>>
        \/ PostbackDirectPlanRaises(u) /\ UNCHANGED <<pipelineVars, deliveryVars>>
        \/ MessageRecordRaises(u, OtherText)
              /\ UNCHANGED <<pipelineVars, deliveryVars>>
        \/ MessageTripRaises(u) /\ UNCHANGED <<pipelineVars, deliveryVars>>
        \/ LocationStoreRaises(u) /\ UNCHANGED <<pipelineVars, deliveryVars>>
        \/ LocationTripRaises(u) /\ UNCHANGED <<pipelineVars, deliveryVars>>

SpecTwoUsers == Init /\ [][TwoUsersNext]_vars

----------------------------------------------------------------------------
(* process_message, step by step, with the retrieval tasks running in the     *)
(* executor's threads                                                         *)

RECURSIVE SeqsUpTo(_, _)
\* the sequences over S of length at most n
SeqsUpTo(S, n) ==
    IF n = 0 THEN { <<>> }
    ELSE LET shorter == SeqsUpTo(S, n - 1)
         IN shorter \cup { Append(q, x) : q \in shorter, x \in S }

\* a variant that takes the futures as they complete
FutureToMergeAsCompleted(i, arr) == IF i <= Len(arr) THEN arr[i] ELSE 0

\* controller.py:119: the future the i-th turn of the loop waits for is the
\* i-th submitted
FutureToMerge(i, arr) == i

\* a variant that keeps the period of a failed search, with no candidates
MergeOneKeepKey(res, status, query) ==
    IF status = "ok"
    THEN DictUpdate(res, TripSearch(query).key, TripSearch(query).ids)
    ELSE DictUpdate(res, query.label, <<>>)

\* controller.py:120-125: the result of a search that returned is merged, a
\* search that raised is printed and skipped
MergeOne(res, status, query) ==
    IF status = "ok"
    THEN DictUpdate(res, TripSearch(query).key, TripSearch(query).ids)
    ELSE res

\* the requirement flags the analyzer may return
UniqueRequirements == { [accessible |-> FALSE], [accessible |-> TRUE] }

\* controller.py:43-45, 72-74: the analyzer returns the request's descriptors
\* and its requirement flags
AnalyzeIntent ==
    /\ pm.pc = "analyze"
    /\ \E ur \in UniqueRequirements :
          pm' = [pm EXCEPT !.pc = "create_search", !.stages = Append(@, "analyze"),
                          !.unique_requirement = ur]
    /\ UNCHANGED <<tasks, arrival, results>>

\* controller.py:43-45, 56-57: the analyzer raises
AnalyzeIntentRaises ==
    /\ pm.pc = "analyze"
    /\ \E d \in ErrorDetails :
          pm' = [pm EXCEPT !.pc = "done", !.stages = Append(@, "analyze"),
                          !.raised = "analyze",
                          !.ret = [ok |-> FALSE, text |-> FailureText("analyze", d),
                                   plan |-> <<>>]]
    /\ UNCHANGED <<tasks, arrival, results>>

\* controller.py:48, 97-112
CreateSearch ==
    /\ pm.pc = "create_search"
    /\ pm' = [pm EXCEPT !.pc = "submit", !.stages = Append(@, "retrieval")]
    /\ results' = <<>>
    /\ UNCHANGED <<tasks, arrival>>

\* controller.py:97-102, 129-130, 56-57: qdrant_search(...) raises
CreateSearchRaises ==
    /\ pm.pc = "create_search"
    /\ \E d \in ErrorDetails :
          pm' = [pm EXCEPT !.pc = "done", !.stages = Append(@, "retrieval"),
                          !.raised = "retrieval",
                          !.ret = [ok |-> FALSE, text |-> FailureText("retrieval", d),
                                   plan |-> <<>>]]
    /\ UNCHANGED <<tasks, arrival, results>>

\* controller.py:114-117: one executor.submit per descriptor
Submit ==
    /\ pm.pc = "submit"
    /\ Len(tasks) < Len(pm.period_describe)
    /\ tasks' = Append(tasks, [status |-> "running", calls |-> 1])
    /\ UNCHANGED <<pm, arrival, results>>

\* controller.py:117-119: all are submitted, the loop starts
StartFanIn ==
    /\ pm.pc = "submit"
    /\ Len(tasks) = Len(pm.period_describe)
    /\ pm' = [pm EXCEPT !.pc = "fan_in", !.i = 1]
    /\ UNCHANGED <<tasks, arrival, results>>

\* a worker thread: trip_search of task j returns or raises
TaskCompletes(j, status) ==
    /\ pm.pc \in {"submit", "fan_in"}
    /\ j \in 1..Len(tasks)
    /\ tasks[j].status = "running"
    /\ tasks' = [tasks EXCEPT ![j].status = status]
    /\ arrival' = Append(arrival, j)
    /\ UNCHANGED <<pm, results>>

\* controller.py:119-125: future.result(), called with no timeout, returns or
\* raises once the loop's future is done
FanIn ==
    /\ pm.pc = "fan_in"
    /\ pm.i <= Len(tasks)
    /\ \E j \in {FutureToMerge(pm.i, arrival)} :
          /\ j \in 1..Len(tasks)
          /\ tasks[j].status \in {"ok", "failed"}
          /\ results' = MergeOne(results, tasks[j].status, pm.period_describe[j])
    /\ pm' = [pm EXCEPT !.i = @ + 1]
    /\ UNCHANGED <<tasks, arrival>>

\* controller.py:127, 48: _vector_retrieval returns the dict
ReturnResults ==
    /\ pm.pc = "fan_in"
    /\ pm.i > Len(tasks)
    /\ pm' = [pm EXCEPT !.pc = "get_places"]
    /\ UNCHANGED <<tasks, arrival, results>>

\* controller.py:51, 150-155
GetPlacesStep ==
    /\ pm.pc = "get_places"
    /\ pm' = [pm EXCEPT !.pc = "plan_trip", !.stages = Append(@, "get_places"),
                        !.location_details = GetPlaces(results, pm.unique_requirement)]
    /\ UNCHANGED <<tasks, arrival, results>>

\* a variant in which the exception is swallowed and composition still runs
GetPlacesRaisesGoesOn ==
    /\ pm.pc = "get_places"
    /\ pm' = [pm EXCEPT !.pc = "plan_trip", !.stages = Append(@, "get_places"),
                        !.raised = "get_places"]
    /\ UNCHANGED <<tasks, arrival, results>>

\* controller.py:51, 56-57: pandas_search raises
GetPlacesRaises ==
    /\ pm.pc = "get_places"
    /\ \E d \in ErrorDetails :
          pm' = [pm EXCEPT !.pc = "done", !.stages = Append(@, "get_places"),
                          !.raised = "get_places",
                          !.ret = [ok |-> FALSE, text |-> FailureText("get_places", d),
                                   plan |-> <<>>]]
    /\ UNCHANGED <<tasks, arrival, results>>

\* controller.py:54, 171
PlanTripStep ==
    /\ pm.pc = "plan_trip"
    /\ pm' = [pm EXCEPT !.pc = "done", !.stages = Append(@, "plan_trip"),
                        !.ret = [ok |-> TRUE, text |-> <<>>,
                                 plan |-> PlanTrip(pm.location_details,
                                                   TheIntent.base_requirement)]]
    /\ UNCHANGED <<tasks, arrival, results>>

\* controller.py:54, 56-57: plan_trip raises
PlanTripRaises ==
    /\ pm.pc = "plan_trip"
    /\ \E d \in ErrorDetails :
          pm' = [pm EXCEPT !.pc = "done", !.stages = Append(@, "plan_trip"),
                          !.raised = "plan_trip",
                          !.ret = [ok |-> FALSE, text |-> FailureText("plan_trip", d),
                                   plan |-> <<>>]]
    /\ UNCHANGED <<tasks, arrival, results>>

RetrievalInit ==
    /\ HandlerInit
    /\ \E pd \in SeqsUpTo(Descriptors, MaxPeriods) :
          pm = [IdlePipeline EXCEPT !.pc = "analyze", !.period_describe = pd]
    /\ tasks = <<>>
    /\ arrival = <<>>
    /\ results = <<>>
    /\ th = IdleDeliveries
    /\ before = NoSnapshot

RetrievalNext ==
    \/ AnalyzeIntent /\ UNCHANGED <<handlerVars, deliveryVars>>
    \/ AnalyzeIntentRaises /\ UNCHANGED <<handlerVars, deliveryVars>>
    \/ CreateSearch /\ UNCHANGED <<handlerVars, deliveryVars>>
    \/ CreateSearchRaises /\ UNCHANGED <<handlerVars, deliveryVars>>
    \/ Submit /\ UNCHANGED <<handlerVars, deliveryVars>>
    \/ StartFanIn /\ UNCHANGED <<handlerVars, deliveryVars>>
    \/ \E j \in 1..Len(tasks), status \in {"ok", "failed"} :
          TaskCompletes(j, status) /\ UNCHANGED <<handlerVars, deliveryVars>>
    \/ FanIn /\ UNCHANGED <<handlerVars, deliveryVars>>
    \/ ReturnResults /\ UNCHANGED <<handlerVars, deliveryVars>>
    \/ GetPlacesStep /\ UNCHANGED <<handlerVars, deliveryVars>>
    \/ GetPlacesRaises /\ UNCHANGED <<handlerVars, deliveryVars>>
    \/ PlanTripStep /\ UNCHANGED <<handlerVars, deliveryVars>>
    \/ PlanTripRaises /\ UNCHANGED <<handlerVars, deliveryVars>>

SpecRetrieval == RetrievalInit /\ [][RetrievalNext]_vars

\* a worker thread: the collaborator behind trip_search of task j never answers
TaskHangs(j) ==
    /\ pm.pc \in {"submit", "fan_in"}
    /\ j \in 1..Len(tasks)
    /\ tasks[j].status = "running"
    /\ tasks' = [tasks EXCEPT ![j].status = "hung"]
    /\ UNCHANGED <<pm, arrival, results>>

\* process_message with collaborators that may hang
HungNext ==
    \/ RetrievalNext
    \/ \E j \in 1..Len(tasks) : TaskHangs(j) /\ UNCHANGED <<handlerVars, deliveryVars>>

\* the main thread and the workers are scheduled: a step that can be taken is taken
SpecHung == RetrievalInit /\ [][HungNext]_vars /\ WF_vars(HungNext)

----------------------------------------------------------------------------
(* Two deliveries of one postback of user u1, each in a thread of its own;    *)
(* a step is one statement of handle_postback, a call of trip_db is one step  *)

Sender == "u1"

\* app.py:120: the condition is read
DeliveryCheck(t) ==
    /\ th[t].pc = "check"
    /\ th' = [th EXCEPT ![t].pc =
                IF trip_user_states[Sender] # Absent
                   /\ ~StartsWith(th[t].data, TripPlanningPrefix)
                THEN "del" ELSE "branch"]
    /\ UNCHANGED <<trip_user_states, plans, dislikes>>

\* app.py:121: del trip_user_states[line_id]
DeliveryDel(t) ==
    /\ th[t].pc = "del"
    /\ trip_user_states[Sender] # Absent
    /\ trip_user_states' = [trip_user_states EXCEPT ![Sender] = Absent]
    /\ th' = [th EXCEPT ![t].pc = "branch"]
    /\ UNCHANGED <<plans, dislikes>>

\* app.py:121: the other delivery has deleted the key; the KeyError leaves the
\* handler, which is outside its try
DeliveryDelRaises(t) ==
    /\ th[t].pc = "del"
    /\ trip_user_states[Sender] = Absent
    /\ th' = [th EXCEPT ![t].pc = "raised"]
    /\ UNCHANGED <<trip_user_states, plans, dislikes>>

\* app.py:165-170: not five fields, the handler returns
DeliveryMalformed(t) ==
    /\ th[t].pc = "branch"
    /\ StartsWith(th[t].data, CancelPrefix)
    /\ Len(Split(th[t].data)) # 5
    /\ th' = [th EXCEPT ![t].pc = "done"]
    /\ UNCHANGED <<trip_user_states, plans, dislikes>>

\* app.py:172-174, 202-212: int() raises, the except clause replies
DeliveryParseRaises(t) ==
    /\ th[t].pc = "branch"
    /\ StartsWith(th[t].data, CancelPrefix)
    /\ Len(Split(th[t].data)) = 5
    /\ ~ParseInt(Split(th[t].data)[2]).ok \/ ~ParseInt(Split(th[t].data)[3]).ok
    /\ th' = [th EXCEPT ![t].pc = "done", ![t].replies = <<PostbackErrorText>>]
    /\ UNCHANGED <<trip_user_states, plans, dislikes>>

\* app.py:172-184: update_plan_restart_index
DeliveryUpdate(t) ==
    /\ th[t].pc = "branch"
    /\ StartsWith(th[t].data, CancelPrefix)
    /\ Len(Split(th[t].data)) = 5
    /\ ParseInt(Split(th[t].data)[2]).ok /\ ParseInt(Split(th[t].data)[3]).ok
    /\ \E parts \in {Split(th[t].data)} :
       \E plan_index \in {ParseInt(parts[2]).val}, step \in {ParseInt(parts[3]).val} :
       \E upd \in {UpdatePlanRestartIndex(plans[Sender], plan_index,
                      RestartIndexArg(plan_index, step), ButtonId(plan_index, step))} :
          /\ plans' = [plans EXCEPT ![Sender] = upd.plans]
          /\ th' = [th EXCEPT ![t].success = upd.success,
                              ![t].pc = IF upd.success THEN "dislike" ELSE "reply"]
    /\ UNCHANGED <<trip_user_states, dislikes>>

\* app.py:186-189: update_user_dislike
DeliveryDislike(t) ==
    /\ th[t].pc = "dislike"
    /\ \E parts \in {Split(th[t].data)} :
          dislikes' = [dislikes EXCEPT ![Sender] =
                         UpdateUserDislike(@, DislikeReason(parts[4], parts[5]))]
    /\ th' = [th EXCEPT ![t].pc = "reply"]
    /\ UNCHANGED <<trip_user_states, plans>>

\* app.py:191-200: the acknowledgement is sent
DeliveryReply(t) ==
    /\ th[t].pc = "reply"
    /\ \E parts \in {Split(th[t].data)} :
          th' = [th EXCEPT ![t].pc = "done",
                           ![t].replies =
                              <<DislikeButtonText(th[t].success, parts[4], parts[5])>>]
    /\ UNCHANGED <<trip_user_states, plans, dislikes>>

PlanAC == StoredPlan(ProcessMessage(TheIntent, [i \in 1..2 |-> "ok"]).plan)

\* conversation states the handlers reach: no plan; a fresh plan; a plan whose
\* second step was cancelled; two plans, the first with its first step cancelled
DeliveryStates ==
    { [plans |-> <<>>, dislikes |-> <<>>],
      [plans |-> <<PlanAC>>, dislikes |-> <<>>],
      [plans |-> <<[PlanAC EXCEPT !.restart_index = 1, !.buttons = {ButtonId(1, 1)}]>>,
       dislikes |-> <<DislikeReason(<<"C">>, <<"food">>)>>],
      [plans |-> <<[PlanAC EXCEPT !.restart_index = 0, !.buttons = {ButtonId(1, 0)}],
                   PlanAC>>,
       dislikes |-> <<DislikeReason(<<"A">>, <<"sight">>)>>] }

DeliveryInit ==
    /\ \E st \in DeliveryStates, flag \in {Absent, "waiting_location"}, data \in CancelData :
          /\ trip_user_states = [u \in Users |-> IF u = Sender THEN flag ELSE Absent]
          /\ plans = [u \in Users |-> IF u = Sender THEN st.plans ELSE <<>>]
          /\ dislikes = [u \in Users |-> IF u = Sender THEN st.dislikes ELSE <<>>]
          /\ before = [plans |-> st.plans, dislikes |-> st.dislikes, flag |-> flag]
          /\ th = [t \in {1, 2} |-> [pc |-> "check", data |-> data, success |-> FALSE,
                                     replies |-> <<>>]]
    /\ locations = [u \in Users |-> FALSE]
    /\ last = NoEvent
    /\ pm = IdlePipeline
    /\ tasks = <<>>
    /\ arrival = <<>>
    /\ results = <<>>

DeliveryNext ==
    \E t \in {1, 2} :
        \/ DeliveryCheck(t) /\ UNCHANGED <<locations, last, before, pipelineVars>>
        \/ DeliveryDel(t) /\ UNCHANGED <<locations, last, before, pipelineVars>>
        \/ DeliveryDelRaises(t) /\ UNCHANGED <<locations, last, before, pipelineVars>>
        \/ DeliveryMalformed(t) /\ UNCHANGED <<locations, last, before, pipelineVars>>
        \/ DeliveryParseRaises(t) /\ UNCHANGED <<locations, last, before, pipelineVars>>
        \/ DeliveryUpdate(t) /\ UNCHANGED <<locations, last, before, pipelineVars>>
        \/ DeliveryDislike(t) /\ UNCHANGED <<locations, last, before, pipelineVars>>
        \/ DeliveryReply(t) /\ UNCHANGED <<locations, last, before, pipelineVars>>

SpecDeliveries == DeliveryInit /\ [][DeliveryNext]_vars

----------------------------------------------------------------------------
(* Reading a handled event *)

IsCancel(e) == e.kind = "postback" /\ StartsWith(e.data, CancelPrefix)

\* the data has five fields and both indices are numbers
WellFormed(e) ==
    /\ IsCancel(e)
    /\ Len(e.parts) = 5
    /\ ParseInt(e.parts[2]).ok
    /\ ParseInt(e.parts[3]).ok

PlanIndexOf(e) == ParseInt(e.parts[2]).val
StepOf(e) == ParseInt(e.parts[3]).val
NameOf(e) == e.parts[4]
LabelFieldOf(e) == e.parts[5]

\* the event cancels a step s of a plan the user has stored, 0 <= s < L
ValidCancel(e, ps) ==
    /\ WellFormed(e)
    /\ PlanIndexOf(e) \in 1..Len(ps)
    /\ StepOf(e) >= 0
    /\ StepOf(e) < Len(ps[PlanIndexOf(e)].steps)

\* ... whose button was not pressed before and whose place is not yet disliked
FreshCancel(e, ps, ds) ==
    /\ ValidCancel(e, ps)
    /\ ButtonId(PlanIndexOf(e), StepOf(e)) \notin ps[PlanIndexOf(e)].buttons
    /\ NameOf(e) \notin Identities(ds)

Recorded(e) ==
    WellFormed(e) /\ e.replies = <<RecordedText(NameOf(e), LabelFieldOf(e))>>
AlreadyKnown(e) ==
    WellFormed(e) /\ e.replies = <<AlreadyText(NameOf(e), LabelFieldOf(e))>>

----------------------------------------------------------------------------
(* Claims about the cancellation branch *)

\* C1: a cancellation of step s, 0 <= s < L, of a stored plan leaves that
\* plan's restart index at min(r, s) where r is the index before; and no event
\* ever raises the restart index of a stored plan.
C1_RestartIndexIsMin ==
    [][\A u \in Users :
        /\ \A p \in 1..Len(plans[u]) :
              /\ p <= Len(plans'[u])
              /\ plans'[u][p].restart_index <= plans[u][p].restart_index
        /\ (last'.user = u /\ ValidCancel(last', plans[u]))
              => plans'[u][PlanIndexOf(last')].restart_index
                   = Min(plans[u][PlanIndexOf(last')].restart_index, StepOf(last'))
      ]_vars

\* a later step was cancelled after an earlier one: the index stayed at the minimum
C1_Witness ==
    /\ ValidCancel(last, plans[last.user])
    /\ Recorded(last)
    /\ StepOf(last) = 1
    /\ plans[last.user][PlanIndexOf(last)].restart_index = 0

\* C2: the same cancellation delivered twice in a row: the first delivery (of a
\* button not pressed before, for a place not yet disliked) is acknowledged as
\* recorded and adds one dislike; the second is acknowledged as already known
\* and changes neither the dislikes nor the plans.
C2_RepeatedCancel ==
    [][/\ (IsCancel(last') /\ FreshCancel(last', plans[last'.user], dislikes[last'.user]))
            => /\ Recorded(last')
               /\ Len(dislikes'[last'.user]) = Len(dislikes[last'.user]) + 1
       /\ (IsCancel(last') /\ last'.user = last.user /\ last'.data = last.data
             /\ Recorded(last))
            => /\ AlreadyKnown(last')
               /\ dislikes' = dislikes
               /\ plans' = plans
      ]_vars

\* the second delivery has happened: the button is pressed, the reason is
\* recorded, and the acknowledgement is the already-known one
C2_Witness ==
    /\ ValidCancel(last, plans[last.user])
    /\ AlreadyKnown(last)
    /\ ButtonId(PlanIndexOf(last), StepOf(last)) \in plans[last.user][PlanIndexOf(last)].buttons
    /\ InSeq(DislikeReason(NameOf(last), LabelFieldOf(last)), dislikes[last.user])

\* C3: no place appears twice in a conversation's dislike record; an event adds
\* at most one dislike, and only a cancellation of a place not recorded before
\* adds one.
C3_DislikeOnce ==
    [][\A u \in Users :
        /\ Cardinality(Identities(dislikes'[u])) = Len(dislikes'[u])
        /\ Len(dislikes'[u]) <= Len(dislikes[u]) + 1
        /\ Len(dislikes'[u]) > Len(dislikes[u])
              => /\ WellFormed(last') /\ last'.user = u
                 /\ NameOf(last') \notin Identities(dislikes[u])
                 /\ dislikes'[u] = Append(dislikes[u],
                                     DislikeReason(NameOf(last'), LabelFieldOf(last')))
      ]_vars

\* the same place was cancelled in two plans and is recorded once
C3_Witness ==
    /\ Len(plans["u1"]) = 2
    /\ plans["u1"][1].buttons # {}
    /\ plans["u1"][2].buttons # {}
    /\ Recorded(last)
    /\ PlanIndexOf(last) = 2
    /\ Len(dislikes["u1"]) = 1

PlanningRequest(e) ==
    \/ e.kind = "postback" /\ e.data = DirectPlanData
    \/ e.kind = "text" /\ e.data = TripCommandText
    \/ e.kind = "location" /\ e.was = "waiting_location"

C5_PrefixPreserved ==
    [][\A u \in Users :
        (/\ Len(plans[u]) >= 1
         /\ Len(plans'[u]) = Len(plans[u]) + 1
         /\ plans[u][Len(plans[u])].buttons # {})
        => LET old == plans[u][Len(plans[u])]
               new == plans'[u][Len(plans'[u])]
           IN \A i \in 1..old.restart_index :
                 i <= Len(new.steps) /\ new.steps[i] = old.steps[i]
      ]_vars

----------------------------------------------------------------------------
(* Claims about the retrieval fan-out and fan-in *)

\* every descriptor's task was submitted and the loop has taken every future
FanInOver ==
    /\ pm.pc \in {"get_places", "plan_trip", "done"}
    /\ Len(tasks) = Len(pm.period_describe)
    /\ pm.i > Len(tasks)

OutcomeOfTasks == [j \in 1..Len(tasks) |-> tasks[j].status]

OkTasks == { j \in 1..Len(tasks) : tasks[j].status = "ok" }
FailedTasks == { j \in 1..Len(tasks) : tasks[j].status = "failed" }

\* C6: when every retrieval task has failed, the retrieval raises, so that
\* process_message returns the apology without running enrichment or
\* composition, and the conversation state is what it was.
C6_AllFailedRaises ==
    (pm.pc = "done" /\ FanInOver /\ Len(tasks) >= 1 /\ OkTasks = {})
      => /\ pm.raised = "retrieval"
         /\ ~pm.ret.ok /\ pm.ret.text # <<>>
         /\ \A k \in 1..Len(pm.stages) : pm.stages[k] \notin {"get_places", "plan_trip"}
         /\ HandlerInit

\* C7: when some tasks fail and some succeed, the retrieval does not raise, the
\* mapping's keys are exactly the labels of the tasks that succeeded, every
\* search was invoked once, and process_message goes on to enrichment and,
\* unless enrichment raises, to composition.
C7_PartialFailure ==
    (FanInOver /\ OkTasks # {} /\ FailedTasks # {})
      => /\ pm.raised # "retrieval"
         /\ Keys(results) = { pm.period_describe[j].label : j \in OkTasks }
         /\ \A j \in 1..Len(tasks) : tasks[j].calls = 1
         /\ pm.pc = "done" =>
              /\ SubSeq(pm.stages, 1, 3) = <<"analyze", "retrieval", "get_places">>
              /\ pm.raised # "get_places" => pm.stages[Len(pm.stages)] = "plan_trip"
              /\ pm.raised = "none" => pm.ret.ok

\* of two periods one search failed; the plan holds the other period only
C7_Witness ==
    /\ pm.pc = "done" /\ pm.ret.ok
    /\ Len(tasks) = 2
    /\ tasks[1].status = "failed" /\ tasks[2].status = "ok"
    /\ Keys(results) = {"lunch"}
    /\ Len(pm.ret.plan) = 1

\* C8: the mapping the retrieval returns, and the plan made of it, are those of
\* merging the tasks' outcomes in the descriptors' order, whatever the order
\* the tasks completed in.
C8_OrderIndependent ==
    FanInOver
      => /\ results = VectorRetrieval(pm.period_describe, OutcomeOfTasks)
         /\ (pm.pc = "done" /\ pm.raised = "none")
              => pm.ret.plan =
                   ProcessMessage([TheIntent EXCEPT
                                      !.period_describe = pm.period_describe,
                                      !.unique_requirement = pm.unique_requirement],
                                  OutcomeOfTasks).plan

\* lunch's search completed before morning's, and morning is still step one
C8_Witness ==
    /\ pm.pc = "done" /\ pm.ret.ok
    /\ arrival = <<2, 1>>
    /\ OkTasks = {1, 2}
    /\ Len(results) = 2 /\ Len(pm.ret.plan) = 2
    /\ results[1].key = "morning" /\ results[2].key = "lunch"
    /\ pm.ret.plan[1].period = "morning" /\ pm.ret.plan[2].period = "lunch"

----------------------------------------------------------------------------
(* Claims about concurrent deliveries *)

Delivered == [kind |-> "postback", data |-> th[1].data, parts |-> Split(th[1].data)]

BothOver == \A t \in {1, 2} : th[t].pc \in {"done", "raised"}

RecordedDeliveries ==
    { t \in {1, 2} :
        th[t].replies = <<RecordedText(NameOf(Delivered), LabelFieldOf(Delivered))>> }

----------------------------------------------------------------------------
(* Claims about payloads that are no valid cancellation *)

\* the data has five fields, and an index field is no number or is negative
UnparsableIndex(e) ==
    /\ IsCancel(e)
    /\ Len(e.parts) = 5
    /\ \E k \in {2, 3} : ~ParseInt(e.parts[k]).ok \/ ParseInt(e.parts[k]).val < 0

\* C11: a cancel postback with five fields whose plan_index or step is no
\* non-negative integer gets no reply of any kind and changes neither the plans
\* (restart indices) nor the dislikes.
C11_UnparsableIgnored ==
    [][UnparsableIndex(last')
         => /\ last'.replies = <<>>
            /\ UNCHANGED <<plans, dislikes>>
      ]_vars

\* the event names a stored plan and a step outside 0 <= s < L
StepOutOfRange(e, ps) ==
    /\ WellFormed(e)
    /\ PlanIndexOf(e) \in 1..Len(ps)
    /\ StepOf(e) < 0 \/ StepOf(e) >= Len(ps[PlanIndexOf(e)].steps)

\* C13: every stored plan's restart index lies in [0, L], L the number of its
\* steps; a cancellation of a step outside 0 <= s < L changes neither the plans
\* (restart indices) nor the dislikes.
C13_RestartIndexInRange ==
    [][/\ \A u \in Users : \A p \in 1..Len(plans'[u]) :
              /\ plans'[u][p].restart_index >= 0
              /\ plans'[u][p].restart_index <= Len(plans'[u][p].steps)
       /\ StepOutOfRange(last', plans[last'.user])
            => UNCHANGED <<plans, dislikes>>
      ]_vars

\* a step past the end of a stored plan was cancelled: it was refused, the
\* plan's restart index is still L and nothing is disliked
C13_Witness ==
    /\ StepOutOfRange(last, plans[last.user])
    /\ StepOf(last) = 2
    /\ AlreadyKnown(last)
    /\ plans[last.user][1].restart_index = Len(plans[last.user][1].steps)
    /\ dislikes[last.user] = <<>>

----------------------------------------------------------------------------
(* Claims about the text process_message returns when a stage raises *)

\* C12: the string returned when a stage raises does not depend on the
\* exception's message: it is the string returned for any other message of an
\* exception raised at that stage.
C12_ApologyIndependentOfDetail ==
    (pm.pc = "done" /\ pm.raised # "none")
      => \A d \in ErrorDetails : pm.ret.text = FailureText(pm.raised, d)

----------------------------------------------------------------------------
(* Claims about text messages *)

UnrelatedText(e) == e.kind = "text" /\ e.data = OtherText

----------------------------------------------------------------------------
(* Claims about termination *)

\* C15: process_message returns, whatever the retrieval tasks do: a task whose
\* collaborator never answers is given up after a bounded wait and the fan-in
\* goes on.
C15_FanInTerminates == <>(pm.pc = "done")

----------------------------------------------------------------------------
(* Claims about location messages *)

Waited(e) == e.was = "waiting_location"

\* C16: a location message has the pipeline invoked only if the sender's flag
\* was waiting_location, and the location is recorded by then; if the flag was
\* waiting_location and no collaborator raised, the location is recorded and
\* the pipeline invoked; if it was not, the message records no location,
\* invokes nothing, replies nothing and changes nothing.
C16_LocationStartsPlanningIffWaiting ==
    [][last'.kind = "location"
         => /\ last'.planned => (Waited(last') /\ locations'[last'.user])
            /\ (Waited(last') /\ last'.exc = "none")
                  => (last'.planned /\ locations'[last'.user])
            /\ ~Waited(last')
                  => /\ ~last'.planned
                     /\ last'.replies = <<>>
                     /\ UNCHANGED <<trip_user_states, plans, dislikes, locations>>
      ]_vars

\* a location arrived after action=trip_planning: it was recorded and a plan
\* was made and stored
C16_Witness ==
    /\ last.kind = "location"
    /\ Waited(last)
    /\ last.planned /\ last.exc = "none"
    /\ locations[last.user]
    /\ Len(plans[last.user]) = 1
    /\ last.replies = <<PlanText(plans[last.user][1].steps)>>

\* C17: once a location message was handled for a conversation that waited for
\* one, the flag is removed, whether planning succeeded, failed or a
\* collaborator raised.
C17_FlagClearedAfterLocation ==
    (last.kind = "location" /\ Waited(last)) => trip_user_states[last.user] = Absent

----------------------------------------------------------------------------
(* Claims about exceptions at the handlers' boundary *)

GenericApologies == { PostbackErrorText, MessageErrorText, LocationErrorText }

\* C18: an exception raised while an event is handled is caught by the
\* handler, which replies one generic apology; no exception leaves a handler,
\* and no event gets more than one reply.
C18_OneApology ==
    /\ Len(last.replies) <= 1
    /\ last.exc # "none"
         => /\ last.exc = "caught"
            /\ Len(last.replies) = 1
            /\ last.replies[1] \in GenericApologies

----------------------------------------------------------------------------
(* Claims about enrichment and about the dislikes in a new plan *)

Enriched ==
    /\ pm.pc \in {"plan_trip", "done"}
    /\ \E k \in 1..Len(pm.stages) : pm.stages[k] = "get_places"
    /\ pm.raised # "get_places"

\* C19: the enriched list handed to the composer is the retrieval's mapping
\* filtered with the analyzer's requirement flags: it holds no candidate that
\* fails a flag the analyzer required.
C19_EnrichmentUsesAnalyzerFlags ==
    Enriched
      => /\ pm.location_details = PandasSearch(results, pm.unique_requirement)
         /\ \A k \in 1..Len(pm.location_details) :
               Passes(pm.location_details[k].name, pm.unique_requirement)

\* the place of a step is in the dislike record
Disliked(step, ds) == <<step.name>> \in Identities(ds)

\* C20: a plan made for a conversation holds, from the kept prefix on, no place
\* of the conversation's dislike record.
C20_NewPlanExcludesDislikes ==
    [][\A u \in Users :
        Len(plans'[u]) = Len(plans[u]) + 1
        => LET new == plans'[u][Len(plans'[u])]
               boundary == IF Len(plans[u]) = 0 THEN 0
                           ELSE plans[u][Len(plans[u])].restart_index
           IN \A i \in 1..Len(new.steps) :
                 i > boundary => ~Disliked(new.steps[i], dislikes[u])
      ]_vars

----------------------------------------------------------------------------
(* Claims about the retrieval's mapping and the order of the stages *)

Labels(period_describe) == { period_describe[j].label : j \in 1..Len(period_describe) }

\* C22: with n descriptors, the mapping of _vector_retrieval has at most n
\* keys at any time, each key once, and every key is the label of a descriptor.
C22_AtMostNKeys ==
    /\ Len(results) <= Len(pm.period_describe)
    /\ Cardinality(Keys(results)) = Len(results)
    /\ Keys(results) \subseteq Labels(pm.period_describe)

\* three searches returned, two of them for the same label: two keys
C22_Witness ==
    /\ FanInOver
    /\ Len(pm.period_describe) = 3
    /\ OkTasks = {1, 2, 3}
    /\ Keys(results) = {"morning", "lunch"}
    /\ Len(results) = 2

StageOrder == <<"analyze", "retrieval", "get_places", "plan_trip">>

\* C23: the stages of process_message run in the order analysis, retrieval,
\* enrichment, composition; when a stage raises, no later stage runs, no plan
\* is produced and the call returns the apology string; when none raises, all
\* four ran and the plan is returned.
C23_StagesInOrder ==
    /\ Len(pm.stages) <= Len(StageOrder)
    /\ pm.stages = SubSeq(StageOrder, 1, Len(pm.stages))
    /\ pm.raised # "none"
         => /\ pm.pc = "done"
            /\ pm.stages # <<>> /\ pm.stages[Len(pm.stages)] = pm.raised
            /\ ~pm.ret.ok
            /\ pm.ret.plan = <<>>
            /\ \E d \in ErrorDetails : pm.ret.text = FailureText(pm.raised, d)
    /\ (pm.pc = "done" /\ pm.raised = "none")
         => /\ pm.stages = StageOrder
            /\ pm.ret.ok

\* enrichment raised after a retrieval that returned: composition did not run
C23_Witness ==
    /\ pm.pc = "done"
    /\ pm.raised = "get_places"
    /\ pm.stages = <<"analyze", "retrieval", "get_places">>
    /\ OkTasks # {}
    /\ ~pm.ret.ok /\ pm.ret.text # <<>>

----------------------------------------------------------------------------
(* Claims about the location flag *)

TripPlanningPostback(e) == e.kind = "postback" /\ StartsWith(e.data, TripPlanningPrefix)

\* C24: a conversation's flag is absent or waiting_location. After a text or
\* a postback of the conversation it is present exactly if the event was an
\* action=trip_planning postback: every text and every other postback removes
\* it, also when the handler fails later. A location message never sets it,
\* and one that finds it absent plans nothing.
C24_FlagOnlyAfterTripPlanning ==
    [][/\ \A u \in Users : trip_user_states'[u] \in {Absent, "waiting_location"}
       /\ last'.kind \in {"text", "postback"}
            => (trip_user_states'[last'.user] # Absent <=> TripPlanningPostback(last'))
       /\ last'.kind = "location"
            => /\ trip_user_states'[last'.user] # Absent
                    => trip_user_states[last'.user] # Absent
               /\ last'.was = Absent => ~last'.planned
      ]_vars

\* the flag was set and a direct_plan postback came: it is gone, though the
\* handler failed after removing it
C24_Witness ==
    /\ last.kind = "postback" /\ last.data = DirectPlanData
    /\ last.was = "waiting_location"
    /\ last.exc = "caught"
    /\ trip_user_states[last.user] = Absent

----------------------------------------------------------------------------
(* Claims about two conversations *)

\* what the program holds of conversation u
StateOf(u) ==
    [flag |-> trip_user_states[u], plans |-> plans[u],
     dislikes |-> dislikes[u], location |-> locations[u]]

\* C21: handling an event of one conversation leaves the location flag, the
\* stored plans with their restart indices and pressed buttons, the dislike
\* list and the stored location of every other conversation as they were,
\* however the events of the two conversations are interleaved.
C21_OtherUserUnchanged ==
    [][\A u \in Users \ {last'.user} : StateOf(u)' = StateOf(u)]_vars

\* u2 waits for a location and has a plan with no button pressed; u1 has just
\* had a cancellation recorded in a plan of its own
C21_Witness ==
    /\ last.user = "u1" /\ IsCancel(last) /\ Recorded(last)
    /\ dislikes["u1"] # <<>> /\ plans["u1"] # <<>>
    /\ trip_user_states["u2"] = "waiting_location"
    /\ plans["u2"] # <<>> /\ dislikes["u2"] = <<>>
    /\ plans["u2"][1].restart_index # plans["u1"][1].restart_index

====
